---- MODULE Spec2Model ----
(***************************************************************************)
(* Model of the de-duplicated workflow-run collection of                   *)
(* java-meta-tracker: workflow_state.py (the durable dedup store) and      *)
(* collect_workflow_metrics.py (the collection pass).                      *)
(*                                                                         *)
(* One pass is one invocation of fetch_workflow_run_metrics.  The upstream *)
(* API is the environment: what the run iterator yields, what run.timing() *)
(* and run.jobs() answer and whether file I/O fails are inputs drawn from  *)
(* small sets.  Fields of a run that the code never reads on a path are    *)
(* not enumerated on that path.                                            *)
(***************************************************************************)
EXTENDS Integers, Sequences, FiniteSets, TLC

\* ---------------------------------------------------------------- bounds
MaxPasses == 2      \* passes (process invocations) in one behaviour
MaxRuns   == 2      \* runs the source yields in one behaviour
MaxRunId  == 2      \* ids of the runs the upstream source can return
MaxJobs   == 1      \* jobs of one run
MaxDay    == 4      \* days a date range can span
MaxLibs   == 1      \* library entries of one category of the document

\* ------------------------------------------------------------- constants
MAX_STORED_RUN_IDS == 2000
TEST_PR_NUMBER     == 15213
OTHER_PR_NUMBER    == TEST_PR_NUMBER + 1     \* some other PR

RunIds == 1..MaxRunId
\* ids stored by earlier passes, all larger than the ids of RunIds
OldIds == (MaxRunId + 1)..(MaxRunId + MAX_STORED_RUN_IDS)
MaxId  == MaxRunId + MAX_STORED_RUN_IDS

Range(s) == {s[i] : i \in 1..Len(s)}
Min2(a, b) == IF a <= b THEN a ELSE b

\* ------------------------------------------------- the durable dedup store
\* sorted(processed_runs, reverse=True): the members of S in [lo, hi],
\* largest first
RECURSIVE SortedDescIn(_, _, _)
SortedDescIn(S, lo, hi) ==
    IF S = {} THEN << >>
    ELSE IF lo = hi THEN << lo >>
    ELSE LET mid == (lo + hi) \div 2
         IN  SortedDescIn({x \in S : x > mid}, mid + 1, hi)
             \o SortedDescIn({x \in S : x <= mid}, lo, mid)

SortedDesc(S) == SortedDescIn(S, 1, MaxId)

\* RunsToSave without the slice
RunsToSave_NoTrim(S) == SortedDesc(S)

\* sorted(processed_runs, reverse=True)[:MAX_STORED_RUN_IDS]
RunsToSave(S) ==
    LET all == SortedDesc(S)
    IN  SubSeq(all, 1, Min2(Len(all), MAX_STORED_RUN_IDS))

\* the state file: absent, or text of one of these shapes
\*   invalid : not JSON (empty file, garbage)
\*   truncated : a cut-off prefix of a dump, run_ids = the ids it holds
\*   array   : well-formed JSON that is not an object
\*   nested  : an object whose run_ids holds nested lists
\*   nokey   : an object without run_ids
\*   object  : an object with a list of integers under run_ids
FileOf(kind, ids) == [kind |-> kind, run_ids |-> ids, count |-> Len(ids)]
AbsentFile  == FileOf("absent", << >>)
InvalidFile == FileOf("invalid", << >>)

\* the dump with a wrong count field
SavedFile_CountsAll(S) ==
    [FileOf("object", RunsToSave(S)) EXCEPT !.count = Cardinality(S)]

\* the json.dump of save_processed_runs
SavedFile(S) == FileOf("object", RunsToSave(S))

\* load_processed_runs whose except clause misses the JSON decode error
load_processed_runs_Uncaught(f) ==
    IF f.kind = "absent" THEN [raised |-> FALSE, ids |-> {}]
    ELSE IF f.kind \in {"invalid", "truncated", "array", "nested"}
         THEN [raised |-> TRUE, ids |-> {}]
    ELSE IF f.kind = "nokey" THEN [raised |-> FALSE, ids |-> {}]
    ELSE [raised |-> FALSE, ids |-> Range(f.run_ids)]

\* load_processed_runs that reads nothing back
load_processed_runs_Empty(f) ==
    [raised |-> f.kind \in {"array", "nested"}, ids |-> {}]

\* load_processed_runs: raised = an exception leaves the function
load_processed_runs(f) ==
    IF f.kind = "absent" THEN [raised |-> FALSE, ids |-> {}]
    ELSE IF f.kind = "invalid" THEN [raised |-> FALSE, ids |-> {}]
    ELSE IF f.kind = "truncated" THEN [raised |-> FALSE, ids |-> {}]
    ELSE IF f.kind = "array" THEN [raised |-> TRUE, ids |-> {}]
    ELSE IF f.kind = "nested" THEN [raised |-> TRUE, ids |-> {}]
    ELSE IF f.kind = "nokey" THEN [raised |-> FALSE, ids |-> {}]
    ELSE [raised |-> FALSE, ids |-> Range(f.run_ids)]

\* outcomes of the I/O of save_processed_runs
SaveOutcomes == {"ok", "open_error", "write_error"}

\* what the process leaves when it dies inside the with-block of lines
\* 65-66: the file was emptied by open(..., 'w'), then holds the text up to
\* some point (before the first id, after it, before the last id, after it)
\* or the whole dump
CutPoints(ids) == {0, 1, Len(ids) - 1, Len(ids)} \cap (0..Len(ids))
FilesOfKilledSave(S) ==
    { FileOf("truncated", SubSeq(RunsToSave(S), 1, k)) :
        k \in CutPoints(RunsToSave(S)) }
    \cup { SavedFile(S) }

\* save_processed_runs that appends to the stored ids instead of overwriting
save_processed_runs_Appends(S, f, io) ==
    IF io = "ok" THEN FileOf("object", f.run_ids \o RunsToSave(S))
    ELSE IF io = "open_error" THEN f
    ELSE InvalidFile

\* save_processed_runs that adds the set to the ids the file holds
save_processed_runs_Merges(S, f, io) ==
    IF io = "ok"
    THEN SavedFile(S \cup (IF f.kind = "object" THEN Range(f.run_ids) ELSE {}))
    ELSE IF io = "open_error" THEN f
    ELSE InvalidFile

\* save_processed_runs: the state file it leaves
save_processed_runs(S, f, io) ==
    IF io = "ok" THEN SavedFile(S)
    ELSE IF io = "open_error" THEN f
    ELSE InvalidFile

\* ------------------------------------------------------- the fetched runs
\* run.pull_requests as the code reads it
NoPullRequests == [acc |-> "ok", list |-> << >>]
PullRequests ==
    { [acc |-> "missing", list |-> << >>],
      [acc |-> "raises",  list |-> << >>],
      [acc |-> "ok",      list |-> << >>],
      [acc |-> "ok",      list |-> << TEST_PR_NUMBER >>],
      [acc |-> "ok",      list |-> << OTHER_PR_NUMBER >>] }
RunOf(id, ev, br, st, co, prs) ==
    [id |-> id, event |-> ev, head_branch |-> br, status |-> st,
     conclusion |-> co, pull_requests |-> prs]

StatusConclusions ==
    { <<"in_progress", "none">>, <<"completed", "success">>,
      <<"completed", "cancelled">>, <<"completed", "none">> }

\* the runs the iterator can yield; pull_requests varies where it is read
Runs ==
    { RunOf(id, k[1], k[2], sc[1], sc[2], NoPullRequests) :
        id \in RunIds,
        k \in {<<"push", "main">>, <<"push", "release/1.0">>,
               <<"schedule", "main">>},
        sc \in StatusConclusions }
    \cup
    { RunOf(id, "pull_request", "feature", sc[1], sc[2], prs) :
        id \in RunIds, sc \in StatusConclusions, prs \in PullRequests }

NoRun == RunOf(0, "none", "none", "none", "none", NoPullRequests)

\* answers of run.timing()
Timings == {"ok", "raises", "empty", "no_duration", "non_numeric"}

\* answers of run.jobs(): the jobs yielded, then whether iteration raises
JobKinds == {"done", "running", "untimed"}
JobSeqs  == UNION {[1..n -> JobKinds] : n \in 0..MaxJobs}
JobLists == {[jobs |-> js, raises |-> r] : js \in JobSeqs, r \in BOOLEAN}

\* jobs of the list for which line 100 records a metric
JobsRecordedBy(jl) == Cardinality({i \in 1..Len(jl.jobs) : jl.jobs[i] = "done"})

\* fetch_job_metrics that returns its count from the except clause too
fetch_job_metrics_CountsPartial(jl) ==
    [recorded |-> JobsRecordedBy(jl), returned |-> JobsRecordedBy(jl)]

\* fetch_job_metrics: job metrics recorded, and the count it returns
fetch_job_metrics(jl) ==
    [recorded |-> JobsRecordedBy(jl),
     returned |-> IF jl.raises THEN 0 ELSE JobsRecordedBy(jl)]

\* ------------------------------------------------ the filter of one run
\* is_test_pr set for every pull request that has a number
IsTestPr_AnyPr(r) ==
    /\ r.event = "pull_request"
    /\ r.pull_requests.acc = "ok"
    /\ Len(r.pull_requests.list) > 0

\* is_test_pr as lines 172-182 set it
IsTestPr(r) ==
    /\ r.event = "pull_request"
    /\ r.pull_requests.acc = "ok"
    /\ Len(r.pull_requests.list) > 0
    /\ r.pull_requests.list[1] = TEST_PR_NUMBER

\* TrackedEvent that takes a push on any branch
TrackedEvent_AnyBranch(r) ==
    \/ r.event = "pull_request"
    \/ r.event = "push"

\* TrackedEvent that wants an associated PR, as the strict variant does
TrackedEvent_NeedsPr(r) ==
    \/ /\ r.event = "pull_request"
       /\ r.pull_requests.acc = "ok"
       /\ Len(r.pull_requests.list) > 0
    \/ r.event = "push" /\ r.head_branch = "main"

\* the event/branch test of lines 174-189
TrackedEvent(r) ==
    \/ r.event = "pull_request"
    \/ r.event = "push" /\ r.head_branch = "main"

\* Classify without the duplicate check
Classify_NoDedup(r, processed) ==
    IF ~TrackedEvent(r) THEN "skip_wrong_branch_or_event"
    ELSE IF r.status # "completed" THEN "skip_incomplete"
    ELSE IF r.conclusion = "cancelled" THEN "skip_cancelled"
    ELSE "accept"

\* Classify without the cancelled check
Classify_NoCancelled(r, processed) ==
    IF r.id \in processed THEN "skip_duplicate"
    ELSE IF ~TrackedEvent(r) THEN "skip_wrong_branch_or_event"
    ELSE IF r.status # "completed" THEN "skip_incomplete"
    ELSE "accept"

\* Classify without the status check
Classify_NoIncomplete(r, processed) ==
    IF r.id \in processed THEN "skip_duplicate"
    ELSE IF ~TrackedEvent(r) THEN "skip_wrong_branch_or_event"
    ELSE IF r.conclusion = "cancelled" THEN "skip_cancelled"
    ELSE "accept"

\* the checks of the loop body in the order the code makes them
Classify(r, processed) ==
    IF r.id \in processed THEN "skip_duplicate"
    ELSE IF ~TrackedEvent(r) THEN "skip_wrong_branch_or_event"
    ELSE IF r.status # "completed" THEN "skip_incomplete"
    ELSE IF r.conclusion = "cancelled" THEN "skip_cancelled"
    ELSE "accept"

\* the attributes of the workflow-duration metric, with the id of the run
MetricOf(r) ==
    [id |-> r.id,
     conclusion |-> IF r.conclusion = "none" THEN "unknown" ELSE r.conclusion,
     event |-> r.event,
     is_build_test |-> IF IsTestPr(r) THEN "true" ELSE "false"]

NoMetric == [id |-> 0, conclusion |-> "none", event |-> "none",
             is_build_test |-> "none"]

\* ------------------------------------------------------------------ state
VARIABLES
    file,                     \* the state file
    pc,                       \* idle, loop, body, done, crashed
    processed_runs,           \* the set loaded at the start of the pass
    newly_processed,
    run,                      \* the run the loop body is working on
    runs_processed, runs_total, runs_incomplete, runs_skipped_branch,
    runs_skipped_duplicate, runs_skipped_cancelled, jobs_recorded,
    wf_recorded,              \* per id, workflow.run.duration records of
                              \* this pass
    wf_last,                  \* the record made for the run last yielded
    recorded_run,             \* that run, if a record was made for it
    timing_last,              \* the answer of run.timing() for that run
    job_metrics,              \* number of workflow.job.duration records
    saved,                    \* none, or the outcome of the save of this pass
    handed,                   \* the set handed to save_processed_runs
    \* history
    pass,                     \* number of the pass
    wf_prior,                 \* per id, records of the earlier passes
    prev_saved,               \* saved of the previous pass
    new_eligible,             \* ids fetched in this pass as eligible and
                              \* not in the loaded set
    new_eligible_prior,       \* the same of the earlier passes
    fetched,                  \* runs the source has yielded so far
    resolved,                 \* how lines 126-145 ended in this pass
    jobs_last,                \* how run.jobs() ended for the run last yielded
    stage,                    \* per id, for a run first fetched before it
                              \* completed: late (in this pass), waiting,
                              \* settled (recorded in this pass), closed
    \* a second invocation of fetch_workflow_run_metrics on the same state
    \* file, running at the same time
    o_pc,                     \* idle, loop, done, crashed
    o_processed_runs,         \* the set it loaded
    o_newly_processed,        \* the ids it added
    o_wf_recorded,            \* per id, the records it made
    o_saved,                  \* none, or the outcome of its save
    o_fetched,                \* runs the source has yielded to it
    \* metadata_project.py
    g_start, g_end,           \* the arguments of generate_date_range
    g_called,                 \* whether it has been called
    g_dates,                  \* its result
    d_data,                   \* the parsed document given to extract_metrics
    d_parser,                 \* the counters of the parser
    d_outcome                 \* none, returned, or the exception

tallies == << runs_processed, runs_total, runs_incomplete, runs_skipped_branch,
              runs_skipped_duplicate, runs_skipped_cancelled, jobs_recorded >>
history == << pass, wf_prior, prev_saved, new_eligible, new_eligible_prior,
              fetched, resolved >>
pass_state ==
    << pc, processed_runs, newly_processed, run, tallies, wf_recorded,
       wf_last, recorded_run, timing_last, job_metrics, saved, handed,
       history, jobs_last, stage >>

other == << o_pc, o_processed_runs, o_newly_processed, o_wf_recorded,
            o_saved, o_fetched >>
tools == << g_start, g_end, g_called, g_dates, d_data, d_parser, d_outcome >>
elsewhere == << other, tools >>
vars == << elsewhere, file, pc, processed_runs, newly_processed, run, tallies,
           wf_recorded, wf_last, recorded_run, timing_last, job_metrics,
           saved, handed, history, jobs_last, stage >>

\* state files a first pass can find: none, damaged ones, and the saves of
\* earlier passes
InitFiles ==
    { AbsentFile, InvalidFile, FileOf("array", << >>), FileOf("nested", << >>),
      FileOf("nokey", << >>), SavedFile({1}) }

\* state files of a store that has reached, or is one short of, its cap
FullFiles == { SavedFile(OldIds), SavedFile(OldIds \ {MaxId}) }

\* ---- metadata_project.py
\* a datetime is a number of ticks, TicksPerDay of them in a day
TicksPerDay == 2
DateTimes == 0..(MaxDay * TicksPerDay + TicksPerDay - 1)

\* generate_date_range that stops before end_date
RECURSIVE generate_date_range_Exclusive(_, _)
generate_date_range_Exclusive(start_date, end_date) ==
    IF start_date < end_date
    THEN << start_date >>
           \o generate_date_range_Exclusive(start_date + TicksPerDay, end_date)
    ELSE << >>

\* generate_date_range: the loop of lines 92-94 from current_date on
RECURSIVE generate_date_range(_, _)
generate_date_range(start_date, end_date) ==
    IF start_date <= end_date
    THEN << start_date >>
           \o generate_date_range(start_date + TicksPerDay, end_date)
    ELSE << >>

\* a library entry of the document: description absent, empty or a text;
\* target_versions.javaagent and .library absent or a version; telemetry
\* absent, false, true, an empty mapping or a mapping with entries
Libraries ==
    [description : {"absent", "empty", "text"},
     javaagent : {"absent", "version"},
     library : {"absent", "version"},
     telemetry : {"absent", "false", "true", "empty_map", "map"}]
PlainLibraries ==
    {l \in Libraries : l.description = "absent" /\ l.javaagent = "absent"
                          /\ l.library = "absent"}
RECURSIVE SeqsUpTo(_, _)
SeqsUpTo(S, n) ==
    IF n = 0 THEN {<< >>}
    ELSE SeqsUpTo(S, n - 1)
           \cup {Append(q, x) : q \in SeqsUpTo(S, n - 1), x \in S}

\* the parsed document: libraries missing, a list, or a mapping of one
\* category to its entries; internal and custom missing or a list
Documents ==
    [libraries : {[kind |-> "missing", items |-> << >>],
                  [kind |-> "list", items |-> << >>]}
                 \cup {[kind |-> "mapping", items |-> q] :
                         q \in SeqsUpTo(Libraries, MaxLibs)},
     internal : {[kind |-> "missing", items |-> << >>]}
                 \cup {[kind |-> "list", items |-> q] :
                         q \in SeqsUpTo(PlainLibraries, 1)},
     custom : {[kind |-> "missing", items |-> << >>]}
                 \cup {[kind |-> "list", items |-> q] :
                         q \in SeqsUpTo(PlainLibraries, 1)}]

\* the truth value Python gives to x.get(key)
Truthy(v) == v \in {"text", "version", "true", "map"}

ZeroCounters ==
    [total_libraries |-> 0, libraries_with_description |-> 0,
     libraries_with_javaagent |-> 0, libraries_with_library_version |-> 0,
     libraries_with_telemetry |-> 0]

\* lines 65-77 for one library
CountLibrary(c, l) ==
    [total_libraries |-> c.total_libraries + 1,
     libraries_with_description |->
        c.libraries_with_description + (IF Truthy(l.description) THEN 1 ELSE 0),
     libraries_with_javaagent |->
        c.libraries_with_javaagent + (IF Truthy(l.javaagent) THEN 1 ELSE 0),
     libraries_with_library_version |->
        c.libraries_with_library_version + (IF Truthy(l.library) THEN 1 ELSE 0),
     libraries_with_telemetry |->
        c.libraries_with_telemetry + (IF Truthy(l.telemetry) THEN 1 ELSE 0)]

\* update_metrics: the counters after the loop over items
RECURSIVE update_metrics(_, _)
update_metrics(c, items) ==
    IF items = << >> THEN c
    ELSE update_metrics(CountLibrary(c, Head(items)), Tail(items))

\* extract_metrics: the counters it leaves and how it ends
extract_metrics(c, data) ==
    IF data.libraries.kind = "missing"
    THEN [counters |-> c, outcome |-> "KeyError"]
    ELSE IF data.libraries.kind = "list"
    THEN [counters |-> c, outcome |-> "AttributeError"]
    ELSE LET c1 == update_metrics(c, data.libraries.items)
         IN  IF data.internal.kind = "missing"
             THEN [counters |-> c1, outcome |-> "KeyError"]
             ELSE LET c2 == update_metrics(c1, data.internal.items)
                  IN  IF data.custom.kind = "missing"
                      THEN [counters |-> c2, outcome |-> "KeyError"]
                      ELSE [counters |-> update_metrics(c2, data.custom.items),
                            outcome |-> "returned"]

NoDocument ==
    [libraries |-> [kind |-> "missing", items |-> << >>],
     internal |-> [kind |-> "missing", items |-> << >>],
     custom |-> [kind |-> "missing", items |-> << >>]]
DatesIdle == g_start = 0 /\ g_end = 0 /\ g_called = FALSE /\ g_dates = << >>
ParserIdle ==
    d_data = NoDocument /\ d_parser = ZeroCounters /\ d_outcome = "none"

OtherIdle ==
    /\ o_pc = "idle"
    /\ o_processed_runs = {}
    /\ o_newly_processed = {}
    /\ o_wf_recorded = [id \in RunIds |-> 0]
    /\ o_saved = "none"
    /\ o_fetched = 0

InitWith(files) ==
    /\ OtherIdle
    /\ DatesIdle
    /\ ParserIdle
    /\ file \in files
    /\ pc = "idle"
    /\ processed_runs = {}
    /\ newly_processed = {}
    /\ run = NoRun
    /\ runs_processed = 0 /\ runs_total = 0 /\ runs_incomplete = 0
    /\ runs_skipped_branch = 0 /\ runs_skipped_duplicate = 0
    /\ runs_skipped_cancelled = 0 /\ jobs_recorded = 0
    /\ wf_recorded = [id \in RunIds |-> 0]
    /\ wf_last = NoMetric
    /\ recorded_run = NoRun
    /\ timing_last = "none"
    /\ job_metrics = 0
    /\ saved = "none"
    /\ handed = {}
    /\ pass = 0
    /\ wf_prior = [id \in RunIds |-> 0]
    /\ prev_saved = "none"
    /\ new_eligible = {}
    /\ new_eligible_prior = {}
    /\ fetched = 0
    /\ resolved = "none"
    /\ jobs_last = "none"
    /\ stage = [id \in RunIds |-> "new"]

Init == InitWith(InitFiles)

\* a run that is eligible: push on main or pull_request, completed, not
\* cancelled, timing available
Eligible(r, timing) ==
    /\ r.event = "pull_request" \/ (r.event = "push" /\ r.head_branch = "main")
    /\ r.status = "completed"
    /\ r.conclusion # "cancelled"
    /\ timing = "ok"

\* AfterResolve without the return of line 145
AfterResolve_NoReturn(raised, api) ==
    IF raised THEN "crashed"
    ELSE IF api = "error" THEN "done" ELSE "loop"

\* where the pass stands after lines 123-145: the load raised, the
\* resolution raised (line 253), no build workflow (line 145), or the loop
AfterResolve(raised, api) ==
    IF raised THEN "crashed"
    ELSE IF api = "ok" THEN "loop" ELSE "done"

\* lines 119-154: load the state, resolve the repository and its workflows;
\* at most n passes
BeginPassUpTo(n) ==
    /\ pc \in {"idle", "done", "killed"}
    /\ pass < n
    /\ \E api \in {"ok", "error", "no_workflows"} :
         LET loaded == load_processed_runs(file)
         IN  /\ processed_runs' = loaded.ids
             /\ pc' = AfterResolve(loaded.raised, api)
             /\ resolved' = IF loaded.raised THEN "none" ELSE api
    /\ newly_processed' = {}
    /\ run' = NoRun
    /\ runs_processed' = 0 /\ runs_total' = 0 /\ runs_incomplete' = 0
    /\ runs_skipped_branch' = 0 /\ runs_skipped_duplicate' = 0
    /\ runs_skipped_cancelled' = 0 /\ jobs_recorded' = 0
    /\ wf_recorded' = [id \in RunIds |-> 0]
    /\ wf_last' = NoMetric
    /\ recorded_run' = NoRun
    /\ timing_last' = "none"
    /\ job_metrics' = 0
    /\ saved' = "none"
    /\ handed' = {}
    /\ pass' = pass + 1
    /\ wf_prior' = [id \in RunIds |-> wf_prior[id] + wf_recorded[id]]
    /\ prev_saved' = saved
    /\ new_eligible' = {}
    /\ new_eligible_prior' = new_eligible_prior \cup new_eligible
    /\ jobs_last' = "none"
    /\ stage' = [id \in RunIds |->
                    IF stage[id] = "late" THEN "waiting"
                    ELSE IF stage[id] = "settled" THEN "closed"
                    ELSE stage[id]]
    /\ UNCHANGED elsewhere
    /\ UNCHANGED << file, fetched >>

BeginPass == BeginPassUpTo(MaxPasses)

\* line 164: the iterator yields the next run, one of R; at most n runs
NextRunWithin(R, n) ==
    /\ pc = "loop"
    /\ fetched < n
    /\ \E r \in R : run' = r
    /\ pc' = "body"
    /\ fetched' = fetched + 1
    /\ wf_last' = NoMetric
    /\ recorded_run' = NoRun
    /\ timing_last' = "none"
    /\ jobs_last' = "none"
    /\ UNCHANGED elsewhere
    /\ UNCHANGED << file, processed_runs, newly_processed, tallies,
                    wf_recorded, job_metrics, saved, handed, pass, wf_prior,
                    prev_saved, new_eligible, new_eligible_prior, resolved,
                    stage >>

NextRunFrom(R) == NextRunWithin(R, MaxRuns)
NextRun == NextRunFrom(Runs)

\* the timing block with the checks of lines 204-208 and the except clause
\* of line 237 left out
TimingUsable_Unchecked(timing) == TRUE

\* lines 202-211: run.timing() gave a duration the code can use
TimingUsable(timing) == timing = "ok"

\* lines 201-239: timing, the metric, the jobs, the bookkeeping; hist: keep
\* in jobs_last how run.jobs() ended
Accept(timing, hist) ==
    IF TimingUsable(timing)
    THEN /\ wf_recorded' = [wf_recorded EXCEPT ![run.id] = @ + 1]
         /\ wf_last' = MetricOf(run)
         /\ recorded_run' = run
         /\ \E jl \in JobLists :
              /\ job_metrics' = job_metrics + fetch_job_metrics(jl).recorded
              /\ jobs_recorded' = jobs_recorded + fetch_job_metrics(jl).returned
              /\ jobs_last' = IF ~hist THEN jobs_last
                              ELSE IF jl.raises THEN "raises" ELSE "ok"
         /\ newly_processed' = newly_processed \cup {run.id}
         /\ runs_processed' = runs_processed + 1
    ELSE UNCHANGED << wf_recorded, wf_last, recorded_run, job_metrics,
                      jobs_recorded, newly_processed, runs_processed,
                      jobs_last >>

\* FileAfterBody that saves after every run
FileAfterBody_Flush(f, ids) == SavedFile(ids)

\* lines 165-239 leave the state file alone
FileAfterBody(f, ids) == f

\* lines 165-239: the loop body for one run
ProcessBody(hist) ==
    /\ pc = "body"
    /\ runs_total' = runs_total + 1
    /\ LET c == Classify(run, processed_runs)
       IN  /\ runs_skipped_duplicate' =
                 runs_skipped_duplicate + IF c = "skip_duplicate" THEN 1 ELSE 0
           /\ runs_skipped_branch' =
                 runs_skipped_branch + IF c = "skip_wrong_branch_or_event" THEN 1 ELSE 0
           /\ runs_incomplete' =
                 runs_incomplete + IF c = "skip_incomplete" THEN 1 ELSE 0
           /\ runs_skipped_cancelled' =
                 runs_skipped_cancelled + IF c = "skip_cancelled" THEN 1 ELSE 0
           /\ IF c = "accept"
              THEN \E timing \in Timings :
                     /\ Accept(timing, hist)
                     /\ timing_last' = timing
              ELSE UNCHANGED << wf_recorded, wf_last, recorded_run, timing_last,
                                job_metrics, jobs_recorded, newly_processed,
                                runs_processed, jobs_last >>
    /\ new_eligible' =
          IF Eligible(run, timing_last') /\ run.id \notin processed_runs
          THEN new_eligible \cup {run.id} ELSE new_eligible
    /\ file' = FileAfterBody(file, processed_runs \cup newly_processed')
    /\ pc' = "loop"
    /\ run' = NoRun
    /\ UNCHANGED elsewhere
    /\ UNCHANGED << processed_runs, saved, handed, pass, wf_prior,
                    prev_saved, new_eligible_prior, fetched, resolved >>

ProcessRun == ProcessBody(FALSE) /\ UNCHANGED stage

\* the loop body, with the history of the runs first fetched before they
\* completed and while their id was not in the loaded set: late when so
\* fetched, waiting in the passes after, settled when a later pass records
\* the run, closed in the passes after that (a run recorded in the pass that
\* saw it running is new again)
ProcessRunStaged ==
    /\ ProcessBody(TRUE)
    /\ stage' =
          IF wf_recorded' # wf_recorded
          THEN IF stage[run.id] = "waiting"
               THEN [stage EXCEPT ![run.id] = "settled"]
               ELSE IF stage[run.id] = "late"
                    THEN [stage EXCEPT ![run.id] = "new"] ELSE stage
          ELSE IF /\ run.status # "completed"
                  /\ run.id \notin processed_runs
                  /\ stage[run.id] = "new"
                  /\ wf_prior[run.id] + wf_recorded[run.id] = 0
               THEN [stage EXCEPT ![run.id] = "late"] ELSE stage

\* lines 253-254: get_runs or the iteration raises, the pass ends unsaved
IterError ==
    /\ pc = "loop"
    /\ pc' = "done"
    /\ UNCHANGED elsewhere
    /\ UNCHANGED << file, processed_runs, newly_processed, run, tallies,
                    wf_recorded, wf_last, recorded_run, timing_last,
                    job_metrics, saved, handed, history, jobs_last, stage >>

\* the process dies during the loop: its memory is gone, the records it
\* made and the state file stay
Kill ==
    /\ pc \in {"loop", "body"}
    /\ pc' = "killed"
    /\ processed_runs' = {}
    /\ newly_processed' = {}
    /\ run' = NoRun
    /\ runs_processed' = 0 /\ runs_total' = 0 /\ runs_incomplete' = 0
    /\ runs_skipped_branch' = 0 /\ runs_skipped_duplicate' = 0
    /\ runs_skipped_cancelled' = 0 /\ jobs_recorded' = 0
    /\ wf_last' = NoMetric
    /\ recorded_run' = NoRun
    /\ timing_last' = "none"
    /\ jobs_last' = "none"
    /\ UNCHANGED elsewhere
    /\ UNCHANGED << file, wf_recorded, job_metrics, saved, handed, history,
                    stage >>

\* all_processed that leaves the loaded ids out
all_processed_NewOnly(processed, newly) == newly

\* line 250: processed_runs.union(newly_processed)
all_processed(processed, newly) == processed \cup newly

\* lines 241-251: the iterator is exhausted, report and save
EndPass ==
    /\ pc = "loop"
    /\ \E io \in SaveOutcomes :
         /\ handed' = all_processed(processed_runs, newly_processed)
         /\ file' = save_processed_runs(
                        all_processed(processed_runs, newly_processed), file, io)
         /\ saved' = io
    /\ pc' = "done"
    /\ UNCHANGED elsewhere
    /\ UNCHANGED << processed_runs, newly_processed, run, tallies,
                    wf_recorded, wf_last, recorded_run, timing_last,
                    job_metrics, history, jobs_last, stage >>

\* lines 241-251, and the process dies while line 66 writes
KilledSave ==
    /\ pc = "loop"
    /\ handed' = all_processed(processed_runs, newly_processed)
    /\ file' \in FilesOfKilledSave(
                     all_processed(processed_runs, newly_processed))
    /\ saved' = "killed"
    /\ pc' = "killed"
    /\ UNCHANGED elsewhere
    /\ UNCHANGED << processed_runs, newly_processed, run, tallies,
                    wf_recorded, wf_last, recorded_run, timing_last,
                    job_metrics, history, jobs_last, stage >>

Next == BeginPass \/ NextRun \/ ProcessRun \/ IterError \/ EndPass

Spec == Init /\ [][Next]_vars

\* one pass that starts from a store at its cap and is given runs that
\* pass the filter
InitFull == InitWith(FullFiles)
FirstPass == pass = 0 /\ BeginPass
MainRuns ==
    { RunOf(id, "push", "main", "completed", "success", NoPullRequests) :
        id \in RunIds }
NextMainRun == NextRunFrom(MainRuns)
NextFull == FirstPass \/ NextMainRun \/ ProcessRun \/ IterError \/ EndPass
SpecFull == InitFull /\ [][NextFull]_vars

\* The variant of main.py: no dedup store, no cancelled check, no job
\* metrics, and of the pull requests only number 14748
STRICT_PR_NUMBER == 14748
StrictPullRequests ==
    { [acc |-> "missing", list |-> << >>],
      [acc |-> "raises",  list |-> << >>],
      [acc |-> "ok",      list |-> << >>],
      [acc |-> "ok",      list |-> << STRICT_PR_NUMBER >>],
      [acc |-> "ok",      list |-> << TEST_PR_NUMBER >>] }
StrictRuns ==
    { RunOf(id, k[1], k[2], sc[1], sc[2], NoPullRequests) :
        id \in RunIds,
        k \in {<<"push", "main">>, <<"push", "release/1.0">>,
               <<"schedule", "main">>},
        sc \in StatusConclusions }
    \cup
    { RunOf(id, "pull_request", "feature", sc[1], sc[2], prs) :
        id \in RunIds, sc \in StatusConclusions, prs \in StrictPullRequests }

\* is_pr_14748 as lines 237-256 of main.py set it
IsPr14748(r) ==
    /\ r.event = "pull_request"
    /\ r.pull_requests.acc = "ok"
    /\ Len(r.pull_requests.list) > 0
    /\ r.pull_requests.list[1] = STRICT_PR_NUMBER

\* ClassifyStrict that lets every pull request through
ClassifyStrict_AnyPr(r) ==
    IF ~(r.event = "pull_request"
           \/ (r.event = "push" /\ r.head_branch = "main"))
    THEN "skip_wrong_branch_or_event"
    ELSE IF r.status # "completed" THEN "skip_incomplete"
    ELSE "accept"

\* the checks of lines 236-268 of main.py in the order the code makes them
ClassifyStrict(r) ==
    IF r.event = "pull_request" /\ ~IsPr14748(r)
    THEN "skip_wrong_branch_or_event"
    ELSE IF ~(r.event = "pull_request"
                \/ (r.event = "push" /\ r.head_branch = "main"))
    THEN "skip_wrong_branch_or_event"
    ELSE IF r.status # "completed" THEN "skip_incomplete"
    ELSE "accept"

\* the attributes of lines 283-289 of main.py, with the id of the run
MetricOfStrict(r) ==
    [id |-> r.id,
     conclusion |-> IF r.conclusion = "none" THEN "unknown" ELSE r.conclusion,
     event |-> r.event,
     is_build_test |-> IF IsPr14748(r) THEN "true" ELSE "false"]

\* lines 199-232 of main.py: resolve the repository and the Build workflow
StrictBegin ==
    /\ pc \in {"idle", "done"}
    /\ pass < MaxPasses
    /\ \E api \in {"ok", "error", "no_workflows"} :
         /\ pc' = IF api = "ok" THEN "loop" ELSE "done"
         /\ resolved' = api
    /\ run' = NoRun
    /\ runs_processed' = 0 /\ runs_total' = 0 /\ runs_incomplete' = 0
    /\ runs_skipped_branch' = 0
    /\ wf_recorded' = [id \in RunIds |-> 0]
    /\ wf_last' = NoMetric
    /\ recorded_run' = NoRun
    /\ timing_last' = "none"
    /\ pass' = pass + 1
    /\ wf_prior' = [id \in RunIds |-> wf_prior[id] + wf_recorded[id]]
    /\ UNCHANGED elsewhere
    /\ UNCHANGED << file, processed_runs, newly_processed,
                    runs_skipped_duplicate, runs_skipped_cancelled,
                    jobs_recorded, job_metrics, saved, handed, prev_saved,
                    new_eligible, new_eligible_prior, fetched, jobs_last,
                    stage >>

\* line 233 of main.py
StrictNextRun == NextRunWithin(StrictRuns, MaxRuns)

\* lines 234-303 of main.py: the loop body for one run
StrictProcessRun ==
    /\ pc = "body"
    /\ runs_total' = runs_total + 1
    /\ LET c == ClassifyStrict(run)
       IN  /\ runs_skipped_branch' =
                 runs_skipped_branch
                   + (IF c = "skip_wrong_branch_or_event" THEN 1 ELSE 0)
           /\ runs_incomplete' =
                 runs_incomplete + (IF c = "skip_incomplete" THEN 1 ELSE 0)
           /\ IF c = "accept"
              THEN \E timing \in Timings :
                     /\ timing_last' = timing
                     /\ IF TimingUsable(timing)
                        THEN /\ wf_recorded' =
                                   [wf_recorded EXCEPT ![run.id] = @ + 1]
                             /\ wf_last' = MetricOfStrict(run)
                             /\ recorded_run' = run
                             /\ runs_processed' = runs_processed + 1
                        ELSE UNCHANGED << wf_recorded, wf_last, recorded_run,
                                          runs_processed >>
              ELSE UNCHANGED << wf_recorded, wf_last, recorded_run,
                                timing_last, runs_processed >>
    /\ pc' = "loop"
    /\ run' = NoRun
    /\ UNCHANGED elsewhere
    /\ UNCHANGED << file, processed_runs, newly_processed,
                    runs_skipped_duplicate, runs_skipped_cancelled,
                    jobs_recorded, job_metrics, saved, handed, history,
                    jobs_last, stage >>

\* line 310 of main.py: an exception of the iteration ends the pass
StrictIterError == IterError

\* lines 305-308 of main.py: the loop is over, the tallies are printed
StrictEnd ==
    /\ pc = "loop"
    /\ pc' = "done"
    /\ UNCHANGED elsewhere
    /\ UNCHANGED << file, processed_runs, newly_processed, run, tallies,
                    wf_recorded, wf_last, recorded_run, timing_last,
                    job_metrics, saved, handed, history, jobs_last, stage >>

NextStrict ==
    StrictBegin \/ StrictNextRun \/ StrictProcessRun \/ StrictIterError
        \/ StrictEnd
SpecStrict == InitWith({AbsentFile}) /\ [][NextStrict]_vars

\* ---- metadata_project.py: each function applied once to its arguments
PassIdle ==
    /\ file = AbsentFile
    /\ pc = "idle"
    /\ processed_runs = {}
    /\ newly_processed = {}
    /\ run = NoRun
    /\ runs_processed = 0 /\ runs_total = 0 /\ runs_incomplete = 0
    /\ runs_skipped_branch = 0 /\ runs_skipped_duplicate = 0
    /\ runs_skipped_cancelled = 0 /\ jobs_recorded = 0
    /\ wf_recorded = [id \in RunIds |-> 0]
    /\ wf_last = NoMetric
    /\ recorded_run = NoRun
    /\ timing_last = "none"
    /\ job_metrics = 0
    /\ saved = "none"
    /\ handed = {}
    /\ pass = 0
    /\ wf_prior = [id \in RunIds |-> 0]
    /\ prev_saved = "none"
    /\ new_eligible = {}
    /\ new_eligible_prior = {}
    /\ fetched = 0
    /\ resolved = "none"
    /\ jobs_last = "none"
    /\ stage = [id \in RunIds |-> "new"]

InitDates ==
    /\ PassIdle /\ OtherIdle /\ ParserIdle
    /\ g_start \in DateTimes /\ g_end \in DateTimes
    /\ g_called = FALSE
    /\ g_dates = << >>

\* lines 87-96: one call of generate_date_range
GenerateDateRange ==
    /\ ~g_called
    /\ g_called' = TRUE
    /\ g_dates' = generate_date_range(g_start, g_end)
    /\ UNCHANGED << g_start, g_end, d_data, d_parser, d_outcome >>
    /\ UNCHANGED << other, file, pass_state >>

SpecDates == InitDates /\ [][GenerateDateRange]_vars

InitParser ==
    /\ PassIdle /\ OtherIdle /\ DatesIdle
    /\ d_data \in Documents
    /\ d_parser = ZeroCounters
    /\ d_outcome = "none"

\* lines 79-84: one call of extract_metrics on a fresh parser
ExtractMetrics ==
    /\ d_outcome = "none"
    /\ d_parser' = extract_metrics(d_parser, d_data).counters
    /\ d_outcome' = extract_metrics(d_parser, d_data).outcome
    /\ UNCHANGED << d_data, g_start, g_end, g_called, g_dates >>
    /\ UNCHANGED << other, file, pass_state >>

SpecParser == InitParser /\ [][ExtractMetrics]_vars

\* Two invocations at the same time on one state file: the second one is
\* the same code; of its locals the model keeps the loaded set, the ids it
\* added and the records it made. Nothing orders its load and its save
\* with those of the first (no lock is taken at lines 123 and 251).
\* lines 121-154 in the second invocation
OtherBegin ==
    /\ o_pc = "idle"
    /\ \E api \in {"ok", "error", "no_workflows"} :
         LET loaded == load_processed_runs(file)
         IN  /\ o_processed_runs' = loaded.ids
             /\ o_pc' = AfterResolve(loaded.raised, api)
    /\ UNCHANGED << o_newly_processed, o_wf_recorded, o_saved, o_fetched >>
    /\ UNCHANGED << file, pass_state, tools >>

\* lines 164-239 in the second invocation, for one run of R
OtherRunFrom(R) ==
    /\ o_pc = "loop"
    /\ o_fetched < MaxRuns
    /\ o_fetched' = o_fetched + 1
    /\ \E r \in R, timing \in Timings :
         IF Classify(r, o_processed_runs) = "accept" /\ TimingUsable(timing)
         THEN /\ o_wf_recorded' = [o_wf_recorded EXCEPT ![r.id] = @ + 1]
              /\ o_newly_processed' = o_newly_processed \cup {r.id}
         ELSE UNCHANGED << o_wf_recorded, o_newly_processed >>
    /\ UNCHANGED << o_pc, o_processed_runs, o_saved >>
    /\ UNCHANGED << file, pass_state, tools >>

\* line 253 in the second invocation
OtherIterError ==
    /\ o_pc = "loop"
    /\ o_pc' = "done"
    /\ UNCHANGED << o_processed_runs, o_newly_processed, o_wf_recorded,
                    o_saved, o_fetched >>
    /\ UNCHANGED << file, pass_state, tools >>

\* lines 249-251 in the second invocation
OtherEnd ==
    /\ o_pc = "loop"
    /\ \E io \in SaveOutcomes :
         /\ file' = save_processed_runs(
                        all_processed(o_processed_runs, o_newly_processed),
                        file, io)
         /\ o_saved' = io
    /\ o_pc' = "done"
    /\ UNCHANGED << o_processed_runs, o_newly_processed, o_wf_recorded,
                    o_fetched >>
    /\ UNCHANGED << pass_state, tools >>

OtherMainRun == OtherRunFrom(MainRuns)
NextOverlap ==
    FirstPass \/ NextMainRun \/ ProcessRun \/ IterError \/ EndPass
        \/ OtherBegin \/ OtherMainRun \/ OtherIterError \/ OtherEnd
SpecOverlap == Init /\ [][NextOverlap]_vars

\* Passes that start from a store at its cap while the source yields a run
\* whose id is smaller than every stored id
InitTrim == InitWith({SavedFile(OldIds)})
TrimRuns ==
    { RunOf(1, "push", "main", "completed", "success", NoPullRequests) }
NextTrimRun == NextRunFrom(TrimRuns)
NextTrim == BeginPass \/ NextTrimRun \/ ProcessRun \/ IterError \/ EndPass
SpecTrim == InitTrim /\ [][NextTrim]_vars

\* Passes with restarts: the process may die during the loop or during the
\* write of the state file, and the next pass starts from what is on disk.
\* The source yields the newest push build of main, still running or
\* succeeded; one pass and one run more than in Spec, so that the run can be
\* fetched before it completes, after it, and once again.
RestartRuns ==
    { RunOf(MaxRunId, "push", "main", sc[1], sc[2], NoPullRequests) :
        sc \in { <<"in_progress", "none">>, <<"completed", "success">> } }

BeginPassRestart == BeginPassUpTo(MaxPasses + 1)
NextRunRestart == NextRunWithin(RestartRuns, MaxRuns + 1)

NextRestart ==
    BeginPassRestart \/ NextRunRestart \/ ProcessRunStaged \/ IterError
        \/ EndPass \/ Kill \/ KilledSave

SpecRestart == Init /\ [][NextRestart]_vars

\* ------------------------------------------------------------ properties
RecordedIds == {id \in RunIds : wf_recorded[id] > 0}
TotalRecorded(id) == wf_prior[id] + wf_recorded[id]
BodyStep == pc = "body" /\ pc' = "loop"
NothingRecorded ==
    /\ wf_recorded' = wf_recorded
    /\ job_metrics' = job_metrics
    /\ newly_processed' = newly_processed
RECURSIVE SumOver(_, _)
SumOver(f, S) ==
    IF S = {} THEN 0
    ELSE LET x == CHOOSE y \in S : TRUE IN f[x] + SumOver(f, S \ {x})

\* C1: over two passes, the second started after the first has saved, every
\* new eligible run has its workflow-duration metric recorded exactly once.
C1_ExactlyOnce ==
    (pass = 2 /\ prev_saved = "ok" /\ pc \in {"loop", "done"})
        => \A id \in new_eligible \cup new_eligible_prior : TotalRecorded(id) = 1

\* C2: a fetched run whose id is in the loaded set is counted as a duplicate
\* and as nothing else, whatever its other fields, and no workflow or job
\* metric is recorded for an id of the loaded set.
C2_DuplicateSkipped ==
    [][ /\ (BodyStep /\ run.id \in processed_runs)
            => /\ runs_skipped_duplicate' = runs_skipped_duplicate + 1
               /\ runs_skipped_branch' = runs_skipped_branch
               /\ runs_incomplete' = runs_incomplete
               /\ runs_skipped_cancelled' = runs_skipped_cancelled
               /\ runs_processed' = runs_processed
               /\ timing_last' = "none"
               /\ NothingRecorded
        /\ \A id \in RunIds \cap processed_runs' : wf_recorded'[id] = 0
      ]_vars
C2_Witness ==
    /\ pc = "loop"
    /\ processed_runs # {}
    /\ runs_total = 1
    /\ runs_skipped_duplicate = 1
    /\ RecordedIds = {}

\* C3: after a successful save of S the stored run_ids are at most
\* MAX_STORED_RUN_IDS and are the min(|S|, MAX_STORED_RUN_IDS) largest of S.
C3_CapInvariant ==
    saved = "ok" =>
        LET kept == Range(file.run_ids)
        IN  /\ file.kind = "object"
            /\ Len(file.run_ids) <= MAX_STORED_RUN_IDS
            /\ Len(file.run_ids) = Min2(Cardinality(handed), MAX_STORED_RUN_IDS)
            /\ Cardinality(kept) = Len(file.run_ids)
            /\ kept \subseteq handed
            /\ \A x \in handed \ kept : \A y \in kept : x < y
C3_Witness ==
    /\ saved = "ok"
    /\ Cardinality(handed) > MAX_STORED_RUN_IDS
    /\ Len(file.run_ids) = MAX_STORED_RUN_IDS

\* C4: a run that is completed with conclusion cancelled gets no
\* workflow-duration metric and its id is not added to the newly-processed
\* set, whether or not its id is in the loaded set.
C4_CancelledExcluded ==
    [][ (BodyStep /\ run.status = "completed" /\ run.conclusion = "cancelled")
            => /\ wf_recorded' = wf_recorded
               /\ wf_last' = NoMetric
               /\ newly_processed' = newly_processed
      ]_vars
C4_Witness ==
    /\ pc = "loop"
    /\ runs_total = 1
    /\ runs_skipped_cancelled = 1
    /\ RecordedIds = {}
    /\ newly_processed = {}

C6_WrongShapeLoad ==
    [][ (pass' = pass + 1 /\ file.kind \in {"array", "nested"})
            => (pc' # "crashed" /\ processed_runs' = {})
      ]_vars

\* C7 as stated: a push on a branch other than main is skipped as wrong
\* branch/event and not emitted; a push on main that is completed with
\* conclusion success is recorded and its id added.
C7_PushFilter_Stated ==
    [][ (BodyStep /\ run.event = "push")
            => IF run.head_branch # "main"
               THEN /\ runs_skipped_branch' = runs_skipped_branch + 1
                    /\ NothingRecorded
               ELSE (run.status = "completed" /\ run.conclusion = "success")
                       => /\ wf_recorded'[run.id] = wf_recorded[run.id] + 1
                          /\ run.id \in newly_processed'
      ]_vars

\* C7 amended: a push on a branch other than main is never emitted and is
\* skipped as wrong branch/event unless its id is in the loaded set (then it
\* is skipped as a duplicate); a push on main that is completed with
\* conclusion success, whose id is not in the loaded set and whose timing is
\* available, is recorded and its id added.
C7_PushFilter ==
    [][ (BodyStep /\ run.event = "push")
            => IF run.head_branch # "main"
               THEN /\ NothingRecorded
                    /\ IF run.id \in processed_runs
                       THEN /\ runs_skipped_duplicate' = runs_skipped_duplicate + 1
                            /\ runs_skipped_branch' = runs_skipped_branch
                       ELSE /\ runs_skipped_branch' = runs_skipped_branch + 1
                            /\ runs_skipped_duplicate' = runs_skipped_duplicate
               ELSE (/\ run.status = "completed" /\ run.conclusion = "success"
                     /\ run.id \notin processed_runs)
                       => /\ timing_last' # "none"
                          /\ timing_last' = "ok"
                               => /\ wf_recorded'[run.id] = wf_recorded[run.id] + 1
                                  /\ wf_last'.id = run.id
                                  /\ run.id \in newly_processed'
                                  /\ runs_processed' = runs_processed + 1
      ]_vars
C7_Witness ==
    /\ pc = "loop"
    /\ runs_skipped_branch = 1
    /\ recorded_run.event = "push" /\ recorded_run.head_branch = "main"
    /\ recorded_run.status = "completed" /\ recorded_run.conclusion = "success"
    /\ wf_last.id = recorded_run.id
    /\ recorded_run.id \in newly_processed

\* C8 as stated: a pull_request run whose pull_requests list is empty or
\* missing is never emitted and never added to the newly-processed set.
NoAssociatedPr(r) ==
    \/ r.pull_requests.acc = "missing"
    \/ r.pull_requests.acc = "ok" /\ r.pull_requests.list = << >>
C8_PrNeedsPr_Stated ==
    [][ (BodyStep /\ run.event = "pull_request" /\ NoAssociatedPr(run))
            => (wf_recorded' = wf_recorded /\ newly_processed' = newly_processed)
      ]_vars

\* C8 amended: a pull_request run is accepted whether or not it carries an
\* associated PR: one whose pull_requests list is empty or missing, whose id
\* is not in the loaded set, that is completed and not cancelled and has
\* timing available, is emitted with is_build_test "false" and added to the
\* newly-processed set.
C8_PrWithoutPr ==
    [][ (/\ BodyStep /\ run.event = "pull_request" /\ NoAssociatedPr(run)
         /\ run.id \notin processed_runs
         /\ run.status = "completed" /\ run.conclusion # "cancelled")
            => /\ timing_last' # "none"
               /\ timing_last' = "ok"
                    => /\ wf_recorded'[run.id] = wf_recorded[run.id] + 1
                       /\ wf_last'.id = run.id
                       /\ wf_last'.event = "pull_request"
                       /\ wf_last'.is_build_test = "false"
                       /\ run.id \in newly_processed'
      ]_vars
C8_Witness ==
    /\ pc = "loop"
    /\ recorded_run.event = "pull_request" /\ NoAssociatedPr(recorded_run)
    /\ wf_last.id = recorded_run.id
    /\ wf_last.is_build_test = "false"
    /\ recorded_run.id \in newly_processed

\* C9: the set handed to the save is the loaded ids together with the ids
\* whose workflow-duration metric was recorded in the pass, and the body
\* adds no id for a run it skips (wrong branch/event, incomplete, cancelled,
\* without timing).
C9_HandedSet ==
    [][ /\ saved' # "none" => handed' = processed_runs' \cup RecordedIds'
        /\ (BodyStep /\ ~Eligible(run, timing_last'))
              => newly_processed' = newly_processed
        /\ (BodyStep /\ wf_recorded' = wf_recorded)
              => newly_processed' = newly_processed
      ]_vars
C9_Witness ==
    /\ saved = "ok"
    /\ processed_runs # {}
    /\ newly_processed # {}
    /\ runs_skipped_cancelled + runs_skipped_branch + runs_incomplete > 0
    /\ handed = processed_runs \cup newly_processed

\* C10: a pass after a successful pass, whose loaded set holds the id of
\* every eligible run it fetches, records no workflow and no job metric,
\* adds no id, and its save leaves the state file as it was.
C10_SecondPassQuiet ==
    [][ (pass' >= 2 /\ prev_saved' = "ok" /\ new_eligible' = {})
            => /\ RecordedIds' = {}
               /\ job_metrics' = 0
               /\ newly_processed' = {}
               /\ runs_processed' = 0
               /\ (pc = "loop" /\ saved' = "ok")
                     => (file'.run_ids = file.run_ids /\ file' = file)
      ]_vars
C10_Witness ==
    /\ pass = 2 /\ prev_saved = "ok" /\ saved = "ok"
    /\ new_eligible = {}
    /\ runs_skipped_duplicate >= 1
    /\ \E id \in processed_runs : wf_prior[id] = 1
    /\ Len(file.run_ids) >= 1

\* C11: a pass in which resolving the repository or its workflow list fails,
\* or which finds no build workflow, ends without an exception leaving it,
\* records no metric and does not write the state file: the file is what it
\* was before the pass.
C11_EarlyEndKeepsState ==
    [][ (pass' = pass + 1 /\ resolved' \in {"error", "no_workflows"})
            => /\ pc' = "done"
               /\ file' = file
               /\ saved' = "none"
               /\ RecordedIds' = {}
               /\ job_metrics' = 0
               /\ newly_processed' = {}
      ]_vars
C11_Witness ==
    /\ pass = 2 /\ pc = "done"
    /\ resolved = "no_workflows"
    /\ prev_saved = "ok"
    /\ saved = "none"
    /\ file.kind = "object" /\ Len(file.run_ids) = 2

\* C12: when the save fails with an I/O error (creating the directory,
\* opening or writing the file), the pass still returns normally and the
\* metrics it recorded stay; the persisted set is the one the pass loaded,
\* only the ids of this pass are missing from it.
C12_SaveFailureKeepsOld ==
    [][ (pc = "loop" /\ saved' \in {"open_error", "write_error"})
            => /\ pc' = "done"
               /\ wf_recorded' = wf_recorded
               /\ job_metrics' = job_metrics
               /\ ~load_processed_runs(file').raised
               /\ load_processed_runs(file').ids = processed_runs
      ]_vars

\* C13: when the timing of a run that passed the filter cannot be used
\* (timing() raises, returns nothing, has no run_duration_ms, or a duration
\* that is not a number), that run alone is skipped: no metric is recorded for
\* it, its id is not added, and the loop goes on to the next run and to the
\* save.
C13_TimingFailureSkipsOne ==
    [][ (BodyStep /\ timing_last' \in Timings \ {"ok"})
            => /\ wf_recorded' = wf_recorded
               /\ job_metrics' = job_metrics
               /\ jobs_recorded' = jobs_recorded
               /\ newly_processed' = newly_processed
               /\ runs_processed' = runs_processed
               /\ file' = file
               /\ pc' = "loop"
      ]_vars
C13_Witness ==
    /\ pc = "done" /\ saved = "ok"
    /\ runs_total = 2 /\ runs_processed = 1
    /\ runs_skipped_duplicate + runs_skipped_branch + runs_incomplete
         + runs_skipped_cancelled = 0
    /\ timing_last = "ok"
    /\ Cardinality(newly_processed) = 1

\* C14: when fetching the jobs of an accepted run fails, fetch_job_metrics
\* returns 0 and raises nothing: the pass goes on, the workflow-duration
\* metric of the run stays recorded and its id is added to the
\* newly-processed set; a later pass that loaded the id records no job metric
\* for the run.
C14_JobsFailureKeepsRun ==
    [][ /\ (BodyStep /\ jobs_last' = "raises")
              => /\ jobs_recorded' = jobs_recorded
                 /\ wf_recorded'[run.id] = wf_recorded[run.id] + 1
                 /\ run.id \in newly_processed'
                 /\ runs_processed' = runs_processed + 1
                 /\ pc' = "loop"
        /\ (BodyStep /\ run.id \in processed_runs)
              => job_metrics' = job_metrics
      ]_vars
C14_Witness ==
    /\ pc = "done" /\ saved = "ok"
    /\ jobs_last = "raises"
    /\ wf_recorded[MaxRunId] = 1
    /\ jobs_recorded = 0
    /\ MaxRunId \in newly_processed
    /\ MaxRunId \in Range(file.run_ids)

\* C15: when the process dies at any point of a pass, also while the save
\* writes the state file, the next load still returns every id that the
\* previous successful save committed.
C15_CrashKeepsCommitted ==
    [][ (pc' = "killed" /\ prev_saved = "ok")
            => load_processed_runs(file).ids
                 \subseteq load_processed_runs(file').ids
      ]_vars

\* C16: when the process dies while save_processed_runs writes the state
\* file, the next load raises nothing and returns the empty set or some of
\* the ids that were being written, never an id outside the set being saved.
C16_CutOffFileLoads ==
    [][ (pc = "loop" /\ saved' = "killed")
            => /\ ~load_processed_runs(file').raised
               /\ load_processed_runs(file').ids \subseteq handed'
      ]_vars
C16_Witness ==
    /\ prev_saved = "killed"
    /\ file.kind = "truncated" /\ Len(file.run_ids) >= 1
    /\ pc = "loop"
    /\ processed_runs = {}

\* C17: in a pass the state file is read once, before any run is fetched,
\* and written at most once, after the loop over the runs: the loaded set
\* is assigned only when the pass begins, and the file changes only in the
\* step that ends the loop.
C17_ReadOnceWriteOnce ==
    [][ /\ (pass' = pass + 1)
              => (file' = file /\ fetched' = fetched /\ runs_total' = 0)
        /\ (processed_runs' # processed_runs) => (pass' = pass + 1)
        /\ (file' # file)
              => (pc = "loop" /\ pc' = "done"
                    /\ saved = "none" /\ saved' # "none")
      ]_vars
C17_Witness ==
    /\ pc = "done" /\ saved = "ok"
    /\ runs_total = 2
    /\ processed_runs # {}
    /\ newly_processed # {}
    /\ Len(file.run_ids) = Cardinality(processed_runs \cup newly_processed)
    /\ ~(newly_processed \subseteq processed_runs)

C19_SavedFileShape ==
    saved = "ok"
       => /\ file.kind = "object"
          /\ \A i \in 1..(Len(file.run_ids) - 1) :
                file.run_ids[i] > file.run_ids[i + 1]
          /\ file.count = Len(file.run_ids)
C19_Witness ==
    /\ saved = "ok"
    /\ Cardinality(handed) = MAX_STORED_RUN_IDS + 1
    /\ file.count = MAX_STORED_RUN_IDS
    /\ file.run_ids[1] = MaxId
    /\ file.run_ids[MAX_STORED_RUN_IDS] = MaxRunId + 1

\* C20: saving is idempotent on the stored ids: after a successful save of a
\* set S, saving S again, or saving the set that a load of the file returns,
\* writes the same run_ids and the same count.
C20_SaveIdempotent ==
    saved = "ok"
       => /\ save_processed_runs(handed, file, "ok") = file
          /\ ~load_processed_runs(file).raised
          /\ save_processed_runs(load_processed_runs(file).ids, file, "ok")
               = file
C20_Witness ==
    /\ saved = "ok"
    /\ Cardinality(handed) > MAX_STORED_RUN_IDS
    /\ load_processed_runs(file).ids # handed
    /\ newly_processed # {}
    /\ Len(file.run_ids) = MAX_STORED_RUN_IDS

\* C22: the is_build_test label of a recorded workflow-duration metric is
\* "true" exactly when the run is a pull_request run whose first associated
\* pull request has the number 15213; a pull_request run with another number
\* that passes the other checks is recorded too, with "false"; a recorded
\* push run has "false".
C22_BuildTestLabel ==
    [][ BodyStep =>
          /\ (wf_recorded' # wf_recorded)
                => /\ wf_last'.is_build_test \in {"true", "false"}
                   /\ wf_last'.is_build_test = "true"
                        <=> /\ run.event = "pull_request"
                            /\ run.pull_requests.acc = "ok"
                            /\ Len(run.pull_requests.list) > 0
                            /\ run.pull_requests.list[1] = TEST_PR_NUMBER
                   /\ run.event = "push" => wf_last'.is_build_test = "false"
          /\ ( /\ run.event = "pull_request"
               /\ run.pull_requests.acc = "ok"
               /\ Len(run.pull_requests.list) > 0
               /\ run.pull_requests.list[1] # TEST_PR_NUMBER
               /\ run.id \notin processed_runs
               /\ Eligible(run, timing_last') )
                => /\ wf_recorded'[run.id] = wf_recorded[run.id] + 1
                   /\ wf_last'.is_build_test = "false"
      ]_vars
C22_Witness ==
    /\ pc = "loop"
    /\ recorded_run.event = "pull_request"
    /\ recorded_run.pull_requests.list = << TEST_PR_NUMBER >>
    /\ wf_last.is_build_test = "true"
    /\ wf_last.id = recorded_run.id
    /\ wf_recorded[recorded_run.id] = 1

\* C27: within one pass no run id has its workflow-duration metric recorded
\* more than once, also when the source yields the same run twice.
C27_OncePerPass ==
    \A id \in RunIds : wf_recorded[id] <= 1

\* C28: a pass that has recorded the workflow-duration metric of a run hands
\* the id of the run to save_processed_runs before it ends, also when a
\* later step of the pass fails outside the timing handler.
C28_RecordedIdsHanded ==
    pc = "done" => (RecordedIds = {} \/ (saved # "none" /\ RecordedIds \subseteq handed))

\* C30: when a pass reaches its tally report, runs_total is the sum of the
\* four skip tallies and runs_processed, runs_processed is the number of
\* workflow-duration metrics recorded in the pass, and jobs_recorded the
\* number of job-duration metrics recorded in it.
C30_TalliesAddUp ==
    (pc = "done" /\ saved # "none")
       => /\ runs_total = runs_skipped_duplicate + runs_skipped_branch
                            + runs_incomplete + runs_skipped_cancelled
                            + runs_processed
          /\ runs_processed = SumOver(wf_recorded, RunIds)
          /\ jobs_recorded = job_metrics

\* C29: after a save that trims the set to the MAX_STORED_RUN_IDS largest
\* ids, a run whose metric an earlier pass recorded and that the next pass
\* fetches again is not recorded again.
C29_TrimKeepsDedup ==
    (pass >= 2 /\ prev_saved = "ok" /\ pc \in {"loop", "done"})
        => \A id \in RunIds : wf_prior[id] >= 1 => wf_recorded[id] = 0

\* C21: nothing locks the state file between a load and the save that
\* follows it. A save writes the set its own pass loaded plus the ids that
\* pass added, whatever the file holds by then; so when two passes have both
\* loaded before either saves, the later save drops the ids that only the
\* earlier one added, and a run can be recorded by both passes.
C21_LastSaveWins ==
    [][ /\ (pc = "loop" /\ saved' = "ok")
              => Range(file'.run_ids) = processed_runs \cup newly_processed
        /\ (o_pc = "loop" /\ o_saved' = "ok")
              => /\ Range(file'.run_ids)
                      = o_processed_runs \cup o_newly_processed
                 /\ saved = "ok"
                      => \A id \in newly_processed \
                                     (o_processed_runs \cup o_newly_processed) :
                            id \notin Range(file'.run_ids)
      ]_vars
C21_Witness ==
    /\ saved = "ok" /\ o_saved = "ok"
    /\ \E id \in RunIds : wf_recorded[id] = 1 /\ o_wf_recorded[id] = 1
    /\ \E id \in newly_processed :
          id \notin o_newly_processed /\ id \notin Range(file.run_ids)

\* C23: in the variant of main.py a pull_request run is recorded only when
\* its first associated pull request has the number 14748; with another
\* number, with no pull request, or when the lookup raises, the run is
\* counted in runs_skipped_branch and nothing is recorded for it.
C23_StrictPrOnly ==
    [][ (BodyStep /\ run.event = "pull_request")
          => /\ ( ~( /\ run.pull_requests.acc = "ok"
                     /\ Len(run.pull_requests.list) > 0
                     /\ run.pull_requests.list[1] = STRICT_PR_NUMBER ) )
                  => /\ runs_skipped_branch' = runs_skipped_branch + 1
                     /\ wf_recorded' = wf_recorded
                     /\ runs_processed' = runs_processed
                     /\ runs_incomplete' = runs_incomplete
             /\ (wf_recorded' # wf_recorded)
                  => /\ run.pull_requests.list = << STRICT_PR_NUMBER >>
                     /\ wf_last'.is_build_test = "true"
      ]_vars
C23_Witness ==
    /\ pc = "loop"
    /\ runs_total = 2 /\ runs_skipped_branch = 1 /\ runs_processed = 1
    /\ recorded_run.event = "pull_request"
    /\ recorded_run.pull_requests.list = << STRICT_PR_NUMBER >>
    /\ wf_last.is_build_test = "true"
    /\ timing_last = "ok"

\* ---- metadata_project.py

\* whole days from a to b, as (b - a).days counts them
DaysBetween(a, b) == (b - a) \div TicksPerDay

\* each element is one day after the one before
ConsecutiveDays(dates) ==
    \A i \in 1..(Len(dates) - 1) : dates[i + 1] = dates[i] + TicksPerDay

\* a date: a datetime at the start of its day
IsDate(t) == t % TicksPerDay = 0

\* C24: for a start date and an end date with start <= end the date-range
\* helper returns the consecutive days from start to end inclusive,
\* ascending: (end - start in days) + 1 elements, the first is start and the
\* last is end; one element for start = end.
C24_DateRange ==
    (g_called /\ IsDate(g_start) /\ IsDate(g_end) /\ g_start <= g_end)
        => /\ Len(g_dates) = DaysBetween(g_start, g_end) + 1
           /\ g_dates[1] = g_start
           /\ g_dates[Len(g_dates)] = g_end
           /\ ConsecutiveDays(g_dates)
           /\ (g_start = g_end => Len(g_dates) = 1)

C24_Witness ==
    /\ g_called
    /\ IsDate(g_start) /\ IsDate(g_end)
    /\ g_start < g_end
    /\ Len(g_dates) = 3
    /\ g_dates[3] = g_end

\* the entries of a document, in the order extract_metrics visits them
EntriesOf(data) == data.libraries.items \o data.internal.items \o data.custom.items

\* how many entries have a telemetry field that is present and not false
RECURSIVE TelemetryPresent(_)
TelemetryPresent(items) ==
    IF items = << >> THEN 0
    ELSE (IF Head(items).telemetry \in {"absent", "false"} THEN 0 ELSE 1)
           + TelemetryPresent(Tail(items))

\* C25: an entry whose telemetry field is present as an empty mapping is
\* counted in libraries_with_telemetry; an entry whose telemetry field is
\* false or absent is not.
C25_EmptyTelemetryCounted ==
    d_outcome = "returned"
        => d_parser.libraries_with_telemetry = TelemetryPresent(EntriesOf(d_data))

\* C26: extracting metrics from a document without a libraries key, or whose
\* libraries value is an empty list, ends without an error and leaves every
\* counter at zero.
C26_NoLibrariesIsEmpty ==
    (d_outcome # "none" /\ d_data.libraries.kind \in {"missing", "list"})
        => d_outcome = "returned" /\ d_parser = ZeroCounters

====
